---- MODULE Spec2Model ----
(***************************************************************************)
(* The drive tracker of the racing navigation app (src/drive.js): a route  *)
(* of segments, a stream of position samples, and the start /              *)
(* updatePosition / finish calls that turn them into segment accuracies    *)
(* and a drive result.                                                     *)
(*                                                                         *)
(* Numbers.  JavaScript numbers are modelled as exact rationals            *)
(* [n |-> numerator, d |-> denominator > 0] wherever the code can produce  *)
(* a fraction (speeds, accuracies, averages, scores before rounding).      *)
(* Distances are whole metres.  Position samples are taken on one          *)
(* meridian (lng = 0) with the latitude counted in metres of arc, where    *)
(* the haversine formula of the code gives exactly R * |dphi|, that is     *)
(* the difference of the two latitudes in metres.                          *)
(* A nullable field is the empty sequence (null) or a one-element          *)
(* sequence holding its value.  A fraction with denominator 0 is one of    *)
(* the special numbers: 0/0 is NaN, 1/0 is Infinity, -1/0 is -Infinity.    *)
(***************************************************************************)
EXTENDS Integers, Sequences, FiniteSets, TLC

VARIABLES
    route,              \* this.route: the caller's route object (shared)
    isActive,           \* this.isActive
    startTime,          \* this.startTime (null or a timestamp)
    currentSegment,     \* this.currentSegment (0-based)
    segmentAccuracies,  \* this.segmentAccuracies
    lastPosition,       \* this.lastPosition (null or a sample)
    totalDistance,      \* this.totalDistance (metres)
    driveTimer,         \* this.driveTimer (null or an interval id)
    intervals,          \* the intervals scheduled with setInterval and not cleared
    nextTimerId,        \* the id the next setInterval returns
    now,                \* Date.now()
    lastCall,           \* the last call made on the tracker and what it returned
    scoreCalls,         \* calls of calculateFinalScore since the last start()
    segmentWrites,      \* per segment: writes of completed/accuracy since the last start()
    scorer,             \* a scoring function called on its own: its arguments and value
    app,                \* the RacingApp that owns the tracker (src/app.js)
    video,              \* the VideoProcessor pipeline and the App around it (secret-guest-mvp)
    board               \* the LeaderboardManager (src/leaderboard.js)

vars == <<route, isActive, startTime, currentSegment, segmentAccuracies,
          lastPosition, totalDistance, driveTimer, intervals, nextTimerId,
          now, lastCall, scoreCalls, segmentWrites, scorer, app, video, board>>

\* what the calls made on the tracker directly leave alone
others == <<scorer, app, video, board>>

trackerState == <<currentSegment, segmentAccuracies, lastPosition, totalDistance>>

-----------------------------------------------------------------------------
(* Bounds of the model *)

MaxStarts == 2      \* start() calls in one behaviour
MaxTime == 1        \* the clock runs from 0 to MaxTime
MaxProbeSpeed == 22 \* speeds and targets of 0..MaxProbeSpeed km/h given to the scorers
MaxExcessTenths == 250 \* speeds up to MaxExcessTenths / 10 km/h over the limit given to the classifier

-----------------------------------------------------------------------------
(* null and rationals *)

Null == <<>>
Some(v) == <<v>>
Val(x) == x[1]

Abs(x) == IF x < 0 THEN -x ELSE x

RECURSIVE GCD(_, _)
GCD(a, b) == IF b = 0 THEN a ELSE GCD(b, a % b)

Sign(x) == IF x < 0 THEN -1 ELSE IF x > 0 THEN 1 ELSE 0

NaN == [n |-> 0, d |-> 0]

Rat(n, d) ==
    IF d = 0 THEN [n |-> Sign(n), d |-> 0]
    ELSE LET g == GCD(Abs(n), d) IN [n |-> n \div g, d |-> d \div g]
Num(k) == [n |-> k, d |-> 1]
RatAdd(x, y) == Rat(x.n * y.d + y.n * x.d, x.d * y.d)
RatSub(x, y) == Rat(x.n * y.d - y.n * x.d, x.d * y.d)
RatMul(x, y) == Rat(x.n * y.n, x.d * y.d)
RatDiv(x, y) == IF y.n >= 0 THEN Rat(x.n * y.d, x.d * y.n) ELSE Rat(-(x.n * y.d), x.d * (-y.n))
RatAbs(x) == [n |-> Abs(x.n), d |-> x.d]
\* a comparison with NaN is false; Math.max of NaN is NaN
RatLess(x, y) == x # NaN /\ y # NaN /\ x.n * y.d < y.n * x.d
RatLeq(x, y) == x # NaN /\ y # NaN /\ x.n * y.d <= y.n * x.d
RatMax(x, y) == IF x = NaN \/ y = NaN THEN NaN ELSE IF RatLeq(x, y) THEN y ELSE x

\* Math.round: the nearest integer, halves rounded up
MathRound(x) == (2 * x.n + x.d) \div (2 * x.d)

\* Math.round as a number: NaN and the infinities round to themselves
RoundNumber(x) == IF x.d = 0 THEN x ELSE Num(MathRound(x))

RECURSIVE RatSum(_)
RatSum(s) == IF s = <<>> THEN Num(0) ELSE RatAdd(s[1], RatSum(Tail(s)))

-----------------------------------------------------------------------------
(* Routes and samples *)

\* a segment as RacingApp.processRoute builds it
Segment(distance, speedLimit) ==
    [distance |-> distance, speedLimit |-> speedLimit, completed |-> FALSE,
     accuracy |-> 0, currentAccuracy |-> Null]

Routes ==
    { [segments |-> <<>>, totalDistance |-> 0],
      [segments |-> <<Segment(1000, 60)>>, totalDistance |-> 1000],
      [segments |-> <<Segment(1000, 60), Segment(1000, 60)>>, totalDistance |-> 2000],
      [segments |-> <<Segment(1000, 60), Segment(2000, 90)>>, totalDistance |-> 3000] }

\* latitudes in metres of meridian arc; 900 is exactly 90% of a 1000 m segment
Lats == {0, 900, 2700}

\* position.coords.speed in m/s: null, 14 m/s (50.4 km/h), 50/3 m/s (60 km/h)
Speeds == {Null, Some(Num(14)), Some(Rat(50, 3))}

Samples == [lat : Lats, lng : {0}, speed : Speeds]

-----------------------------------------------------------------------------
(* The pure functions of the tracker *)

\* a missing speed not defaulted: undefined * 3.6
speedKmhUndefined(locationData) ==
    IF locationData.speed = Null THEN NaN ELSE RatMul(Val(locationData.speed), Rat(36, 10))

\* (locationData.speed || 0) * 3.6
speedKmh(locationData) ==
    RatMul(IF locationData.speed = Null THEN Num(0) ELSE Val(locationData.speed),
           Rat(36, 10))

\* the scale of the tolerance band turned round: 80 at the target
calculateSpeedAccuracyInverted(actualSpeed, targetSpeed) ==
    LET difference == RatAbs(RatSub(actualSpeed, targetSpeed))
        tolerance == RatMul(targetSpeed, Rat(1, 10))
    IN  IF RatLeq(difference, tolerance)
        THEN RatAdd(Num(80), RatMul(RatDiv(difference, tolerance), Num(20)))
        ELSE LET excessRatio == RatDiv(RatSub(difference, tolerance), targetSpeed)
             IN  RatMax(Num(0), RatSub(Num(80), RatMul(excessRatio, Num(80))))

\* the floor at zero left out
calculateSpeedAccuracyNoFloor(actualSpeed, targetSpeed) ==
    LET difference == RatAbs(RatSub(actualSpeed, targetSpeed))
        tolerance == RatMul(targetSpeed, Rat(1, 10))
    IN  IF RatLeq(difference, tolerance)
        THEN RatSub(Num(100), RatMul(RatDiv(difference, tolerance), Num(20)))
        ELSE LET excessRatio == RatDiv(RatSub(difference, tolerance), targetSpeed)
             IN  RatSub(Num(80), RatMul(excessRatio, Num(80)))

calculateSpeedAccuracy(actualSpeed, targetSpeed) ==
    LET difference == RatAbs(RatSub(actualSpeed, targetSpeed))
        tolerance == RatMul(targetSpeed, Rat(1, 10))
    IN  IF RatLeq(difference, tolerance)
        THEN RatSub(Num(100), RatMul(RatDiv(difference, tolerance), Num(20)))
        ELSE LET excessRatio == RatDiv(RatSub(difference, tolerance), targetSpeed)
             IN  RatMax(Num(0), RatSub(Num(80), RatMul(excessRatio, Num(80))))

\* window.calculateSegmentAccuracy of the scoring script
calculateSegmentAccuracy(actualSpeed, targetSpeed, maxSpeed) ==
    IF RatLess(RatAdd(targetSpeed, Num(22)), maxSpeed) THEN Num(0)
    ELSE LET deviation == RatAbs(RatSub(actualSpeed, targetSpeed))
             tolerance == RatMul(targetSpeed, Rat(15, 100))
         IN  IF RatLeq(deviation, tolerance)
             THEN RatSub(Num(100), RatMul(RatDiv(deviation, tolerance), Num(10)))
             ELSE LET excessDeviation == RatSub(deviation, tolerance)
                      maxAllowedDeviation == RatMul(targetSpeed, Rat(5, 10))
                  IN  IF RatLeq(maxAllowedDeviation, excessDeviation) THEN Num(0)
                      ELSE RatMax(Num(0),
                                  RatSub(Num(90),
                                         RatMul(RatDiv(excessDeviation, maxAllowedDeviation),
                                                Num(90))))

\* the upper edge of the warning band taken as critical
checkSpeedViolationStrict(currentSpeed, speedLimit) ==
    LET excess == RatSub(currentSpeed, speedLimit)
    IN  IF RatLeq(excess, Num(10)) THEN "none"
        ELSE IF RatLess(excess, Num(22)) THEN "warning"
        ELSE "critical"

\* window.checkSpeedViolation of the scoring script
window_checkSpeedViolation(currentSpeed, speedLimit) ==
    LET excess == RatSub(currentSpeed, speedLimit)
    IN  IF RatLeq(excess, Num(10)) THEN "none"
        ELSE IF RatLeq(excess, Num(22)) THEN "warning"
        ELSE "critical"

\* DriveTracker.checkSpeedViolation
checkSpeedViolation(currentSpeed, speedLimit) ==
    LET excess == RatSub(currentSpeed, speedLimit)
    IN  IF RatLeq(excess, Num(10)) THEN "none"
        ELSE IF RatLeq(excess, Num(22)) THEN "warning"
        ELSE "critical"

\* the difference of the latitudes with its sign
haversineSigned(p, q) == q.lat - p.lat

\* the haversine distance of two samples on one meridian: R * |dphi|
haversineDistance(p, q) == Abs(q.lat - p.lat)

RECURSIVE getDistanceToSegment(_, _)
getDistanceToSegment(rt, segmentIndex) ==
    IF segmentIndex = 0 THEN 0
    ELSE getDistanceToSegment(rt, segmentIndex - 1) + rt.segments[segmentIndex].distance


\* a strict comparison in place of >=
shouldAdvanceSegmentStrict(total, segmentIndex, rt) ==
    LET segment == rt.segments[segmentIndex + 1]
        currentSegmentDistance == total - getDistanceToSegment(rt, segmentIndex)
    IN  ~RatLeq(Num(currentSegmentDistance), RatMul(Num(segment.distance), Rat(9, 10)))

\* currentSegmentDistance >= segment.distance * 0.9
shouldAdvanceSegment(total, segmentIndex, rt) ==
    LET segment == rt.segments[segmentIndex + 1]
        currentSegmentDistance == total - getDistanceToSegment(rt, segmentIndex)
    IN  RatLeq(RatMul(Num(segment.distance), Rat(9, 10)), Num(currentSegmentDistance))

\* the increment left out
advanceSegmentStuck(segmentIndex) == segmentIndex

\* the index moved past the next segment as well
advanceSegmentTwice(segmentIndex) == segmentIndex + 2

\* this.currentSegment++
advanceSegment(segmentIndex) == segmentIndex + 1

\* segment.completed = true; segment.accuracy = Math.round(finalAccuracy)
completeCurrentSegment(rt, segmentIndex, finalAccuracy) ==
    [rt EXCEPT !.segments[segmentIndex + 1].completed = TRUE,
               !.segments[segmentIndex + 1].accuracy = MathRound(finalAccuracy)]

\* the push left out
pushAccuracyDropped(list, finalAccuracy) == list

\* this.segmentAccuracies.push(finalAccuracy)
pushAccuracy(list, finalAccuracy) == Append(list, finalAccuracy)

\* Math.log10 to three decimals, on the values distanceKm + 1 the model uses
log10(x) ==
    CASE x = Num(1) -> Num(0)
      [] x = Num(2) -> Rat(301, 1000)
      [] x = Num(3) -> Rat(477, 1000)
      [] x = Num(4) -> Rat(602, 1000)
      [] x = Num(10) -> Num(1)
      [] x = Num(1000000000) -> Num(9)

\* calculateFinalScore from its distance in kilometres on (a distance of
\* 10^9 km is 10^12 m, beyond the integers of the model)
scoreForDistanceKm(avgAccuracy, distanceKm) ==
    IF RatLeq(avgAccuracy, Num(0)) THEN Num(0)
    ELSE LET score == RatMul(avgAccuracy, Num(10))
             distanceMultiplier == RatAdd(log10(RatAdd(distanceKm, Num(1))), Num(1))
         IN  RoundNumber(RatMul(score, distanceMultiplier))

calculateFinalScore(avgAccuracy, distance) ==
    scoreForDistanceKm(avgAccuracy, Rat(distance, 1000))

\* the mean taken of an empty list as well
averageAccuracyNoGuard(list) == RatDiv(RatSum(list), Num(Len(list)))

\* the average finish() takes of the completed accuracies, 0 for none
averageAccuracy(list) ==
    IF Len(list) > 0 THEN RatDiv(RatSum(list), Num(Len(list))) ELSE Num(0)

\* the score taken from the distance travelled in place of the route's
driveResultTravelled(rt, list, started, endTime) ==
    LET avgAccuracy == averageAccuracy(list)
    IN  [date |-> endTime,
         distance |-> rt.totalDistance,
         duration |-> endTime - (IF started = Null THEN 0 ELSE Val(started)),
         segmentsCompleted |-> Len(list),
         totalSegments |-> Len(rt.segments),
         accuracy |-> RoundNumber(avgAccuracy),
         \* this.totalDistance in whole kilometres, 3 at most
         score |-> calculateFinalScore(avgAccuracy,
                                       IF totalDistance >= 3000 THEN 3000
                                       ELSE 1000 * (totalDistance \div 1000)),
         segmentAccuracies |-> list]

\* the results object finish() builds (id and userId left out)
driveResult(rt, list, started, endTime) ==
    LET avgAccuracy == averageAccuracy(list)
    IN  [date |-> endTime,
         distance |-> rt.totalDistance,
         \* endTime - this.startTime, a null startTime counting as 0
         duration |-> endTime - (IF started = Null THEN 0 ELSE Val(started)),
         segmentsCompleted |-> Len(list),
         totalSegments |-> Len(rt.segments),
         accuracy |-> RoundNumber(avgAccuracy),
         score |-> calculateFinalScore(avgAccuracy, rt.totalDistance),
         segmentAccuracies |-> list]

\* the list of the session before kept
resetAccuraciesKept(list) == list

\* this.segmentAccuracies = [];      (start)
resetAccuracies(list) == <<>>

\* no scoring function has been called on its own
NoScorerCall == [fn |-> "none", args |-> <<>>, value |-> <<>>]

\* the guard of updatePosition left out
updateNeverNoop(active) == FALSE

\* if (!this.isActive) return;        (updatePosition)
updateIsNoop(active) == ~active

\* the guard of finish left out
finishNeverNoop(active) == FALSE

\* if (!this.isActive) return null;   (finish)
finishIsNoop(active) == ~active

\* finish leaving the tracker active
activeAfterFinishKept == TRUE

\* this.isActive = false;             (finish)
activeAfterFinish == FALSE

-----------------------------------------------------------------------------
(* The calls *)

\* sample is the sample an updatePosition call on an Active tracker was given,
\* violation what the call handed to handleSpeedViolation ("none" when it
\* did not get that far), advanced whether it completed a segment
Call(op, sample, result, advanced, violation) ==
    [op |-> op, wasActive |-> isActive, sample |-> sample, result |-> result,
     advanced |-> advanced, violation |-> violation]

\* Date.now() read by the call: the clock has moved on by 0 or 1
Clock == \E dt \in 0..1 : now + dt <= MaxTime /\ now' = now + dt

\* the body of finish() once it is past its guard; the caller decides what
\* happens to the returned results
finishBody ==
    /\ isActive' = activeAfterFinish
    /\ driveTimer' = Null
    /\ intervals' = IF driveTimer = Null THEN intervals ELSE intervals \ {Val(driveTimer)}
    /\ scoreCalls' = scoreCalls + 1
    /\ UNCHANGED <<route, startTime, currentSegment, segmentAccuracies, lastPosition,
                   totalDistance, nextTimerId, segmentWrites>>

finishResult == driveResult(route, segmentAccuracies, startTime, now')

start ==
    /\ nextTimerId <= MaxStarts
    /\ Clock
    /\ isActive' = TRUE
    /\ startTime' = Some(now')
    /\ currentSegment' = 0
    /\ segmentAccuracies' = resetAccuracies(segmentAccuracies)
    /\ lastPosition' = Null
    /\ totalDistance' = 0
    /\ driveTimer' = Some(nextTimerId)
    /\ intervals' = intervals \cup {nextTimerId}
    /\ nextTimerId' = nextTimerId + 1
    /\ scoreCalls' = 0
    /\ segmentWrites' = [i \in DOMAIN route.segments |-> 0]
    /\ lastCall' = Call("start", Null, Null, FALSE, "none")
    /\ UNCHANGED route

updatePosition(locationData) ==
    /\ Clock
    /\ IF updateIsNoop(isActive)
       THEN /\ lastCall' = Call("updatePosition", Null, Null, FALSE, "none")
            /\ UNCHANGED <<route, isActive, startTime, currentSegment, segmentAccuracies,
                           lastPosition, totalDistance, driveTimer, intervals,
                           nextTimerId, scoreCalls, segmentWrites>>
       ELSE IF currentSegment >= Len(route.segments)
       THEN \* no current segment: this.finish(), its results dropped
            /\ finishBody
            /\ lastCall' = Call("updatePosition", Some(locationData), Null, FALSE, "none")
       ELSE LET segment == route.segments[currentSegment + 1]
                accuracy == calculateSpeedAccuracy(speedKmh(locationData),
                                                   Num(segment.speedLimit))
                violation == checkSpeedViolation(speedKmh(locationData),
                                                 Num(segment.speedLimit))
                scored == [route EXCEPT
                              !.segments[currentSegment + 1].currentAccuracy = Some(accuracy)]
                \* calculateSegmentProgress adds the distance from the last position
                total == IF lastPosition = Null THEN totalDistance
                         ELSE totalDistance + haversineDistance(Val(lastPosition), locationData)
                advance == shouldAdvanceSegment(total, currentSegment, scored)
            IN  /\ totalDistance' = total
                /\ IF advance
                   THEN /\ route' = completeCurrentSegment(scored, currentSegment, accuracy)
                        /\ segmentAccuracies' = pushAccuracy(segmentAccuracies, accuracy)
                        /\ segmentWrites' = [segmentWrites EXCEPT ![currentSegment + 1] = @ + 1]
                        /\ currentSegment' = advanceSegment(currentSegment)
                   ELSE /\ route' = scored
                        /\ UNCHANGED <<segmentAccuracies, segmentWrites, currentSegment>>
                /\ lastPosition' = Some(locationData)
                /\ lastCall' = Call("updatePosition", Some(locationData), Null, advance, violation)
                /\ UNCHANGED <<isActive, startTime, driveTimer, intervals, nextTimerId,
                               scoreCalls>>

finish ==
    /\ Clock
    /\ IF finishIsNoop(isActive)
       THEN /\ lastCall' = Call("finish", Null, Null, FALSE, "none")
            /\ UNCHANGED <<route, isActive, startTime, currentSegment, segmentAccuracies,
                           lastPosition, totalDistance, driveTimer, intervals,
                           nextTimerId, scoreCalls, segmentWrites>>
       ELSE /\ finishBody
            /\ lastCall' = Call("finish", Null, Some(finishResult), FALSE, "none")

\* new DriveTracker(route)
TrackerInit ==
    /\ route \in Routes
    /\ isActive = FALSE
    /\ startTime = Null
    /\ currentSegment = 0
    /\ segmentAccuracies = <<>>
    /\ lastPosition = Null
    /\ totalDistance = 0
    /\ driveTimer = Null
    /\ intervals = {}
    /\ nextTimerId = 1
    /\ now = 0
    /\ lastCall = [op |-> "new", wasActive |-> FALSE, sample |-> Null, result |-> Null,
                   advanced |-> FALSE, violation |-> "none"]
    /\ scoreCalls = 0
    /\ segmentWrites = [i \in DOMAIN route.segments |-> 0]

\* no RacingApp, no VideoProcessor and no LeaderboardManager around
NoApp == [driveTracker |-> FALSE]
NoVideo == [mounted |-> FALSE]
NoBoard == [loaded |-> FALSE]

Init ==
    /\ TrackerInit
    /\ scorer = NoScorerCall
    /\ app = NoApp
    /\ video = NoVideo
    /\ board = NoBoard

Next ==
    \/ start /\ UNCHANGED others
    \/ \E locationData \in Samples : updatePosition(locationData) /\ UNCHANGED others
    \/ finish /\ UNCHANGED others

Spec == Init /\ [][Next]_vars

-----------------------------------------------------------------------------
(* The scoring functions called on their own: the arguments are drawn at    *)
(* the start, the call puts the value next to them.                         *)

ProbeSpeeds == 0..MaxProbeSpeed

\* calculateSpeedAccuracy(a1, t), calculateSpeedAccuracy(a2, t) and
\* calculateSegmentAccuracy(a1, t, a1), speeds in whole km/h
AccuracyProbes ==
    [fn : {"calculateSpeedAccuracy"},
     args : ProbeSpeeds \X ProbeSpeeds \X ProbeSpeeds,
     value : {<<>>}]

\* calculateFinalScore(avgAccuracy, distance), the distance given in km
ScoreProbes ==
    [fn : {"calculateFinalScore"},
     args : {0, 50, 100} \X {0, 1, 2, 3, 9, 999999999},
     value : {<<>>}]

\* checkSpeedViolation(currentSpeed, speedLimit): the speed in tenths of a
\* km/h, from 2 km/h under the limit to MaxExcessTenths / 10 km/h over it
ViolationProbes ==
    [fn : {"checkSpeedViolation"},
     args : UNION { { <<10 * limit + e, limit>> : e \in (-20)..MaxExcessTenths } :
                    limit \in {0, 60, 90} },
     value : {<<>>}]

trackerVars == <<route, isActive, startTime, currentSegment, segmentAccuracies,
                 lastPosition, totalDistance, driveTimer, intervals, nextTimerId,
                 now, lastCall, scoreCalls, segmentWrites>>

callSpeedAccuracy ==
    /\ scorer.fn = "calculateSpeedAccuracy"
    /\ scorer.value = <<>>
    /\ LET a1 == Num(scorer.args[1])
           a2 == Num(scorer.args[2])
           t == Num(scorer.args[3])
       IN  scorer' = [scorer EXCEPT !.value = <<calculateSpeedAccuracy(a1, t),
                                                calculateSpeedAccuracy(a2, t),
                                                calculateSegmentAccuracy(a1, t, a1)>>]
    /\ UNCHANGED <<trackerVars, app, video, board>>

callFinalScore ==
    /\ scorer.fn = "calculateFinalScore"
    /\ scorer.value = <<>>
    /\ scorer' = [scorer EXCEPT !.value = <<scoreForDistanceKm(Num(scorer.args[1]),
                                                               Num(scorer.args[2]))>>]
    /\ UNCHANGED <<trackerVars, app, video, board>>

callSpeedViolation ==
    /\ scorer.fn = "checkSpeedViolation"
    /\ scorer.value = <<>>
    /\ LET currentSpeed == Rat(scorer.args[1], 10)
           speedLimit == Num(scorer.args[2])
       IN  scorer' = [scorer EXCEPT
                        !.value = <<checkSpeedViolation(currentSpeed, speedLimit),
                                    window_checkSpeedViolation(currentSpeed, speedLimit)>>]
    /\ UNCHANGED <<trackerVars, app, video, board>>

ScorerInit ==
    /\ TrackerInit
    /\ route.segments = <<>>
    /\ scorer \in AccuracyProbes \cup ScoreProbes \cup ViolationProbes
    /\ app = NoApp
    /\ video = NoVideo
    /\ board = NoBoard

ScorerNext == callSpeedAccuracy \/ callFinalScore \/ callSpeedViolation

ScorerSpec == ScorerInit /\ [][ScorerNext]_vars

-----------------------------------------------------------------------------
(* The VideoProcessor of secret-guest-mvp and the App that renders it.       *)
(* A list of frames or of detected objects is kept as its length.  A child   *)
(* component (FrameExtractor, VisionAnalyzer, ScoringEngine) starts its      *)
(* asynchronous work in an effect when it is mounted; the work outlives the  *)
(* component and ends by calling a handler of the VideoProcessor.  tasks is  *)
(* the work in flight: current when it belongs to the mounted child, stale   *)
(* when its component has been unmounted since.                              *)

MaxFrames == 1      \* frames a video or a live capture yields
MaxObjects == 1     \* object types the analysis detects

\* the state of a VideoProcessor as useState initialises it
FreshProcessor ==
    [mounted |-> TRUE, captureMode |-> "live", videoFile |-> FALSE,
     extractedFrames |-> 0, detectedObjects |-> 0, isProcessing |-> FALSE,
     currentStage |-> "idle", progress |-> 0]

\* the state of the App as useState initialises it, no VideoProcessor rendered
VideoStart ==
    [mounted |-> FALSE, captureMode |-> "live", videoFile |-> FALSE,
     extractedFrames |-> 0, detectedObjects |-> 0, isProcessing |-> FALSE,
     currentStage |-> "idle", progress |-> 0,
     tasks |-> {}, cancelled |-> FALSE, event |-> "render",
     currentScreen |-> "zone-selection", appIsProcessing |-> FALSE,
     processingStage |-> "idle", error |-> FALSE, currentResult |-> FALSE]

\* the stage-gated child the VideoProcessor renders
mountedChild(v) ==
    IF ~v.mounted \/ ~v.isProcessing THEN "none"
    ELSE IF v.videoFile /\ v.currentStage = "extracting_frames" THEN "FrameExtractor"
    ELSE IF v.extractedFrames > 0 /\ v.currentStage = "analyzing_frames" THEN "VisionAnalyzer"
    ELSE IF v.detectedObjects > 0 /\ v.currentStage = "calculating_scores" THEN "ScoringEngine"
    ELSE "none"

\* the render after a handler: a child that is no longer rendered is
\* unmounted (its work goes on), a newly rendered child starts its work
render(old, new) ==
    IF mountedChild(new) = mountedChild(old) THEN new
    ELSE [new EXCEPT !.tasks =
            {[child |-> t.child, current |-> FALSE] : t \in new.tasks}
            \cup (IF mountedChild(new) = "none" THEN {}
                  ELSE {[child |-> mountedChild(new), current |-> TRUE]})]

\* setCurrentStage(stage); onProcessingStageUpdate(stage); setProgress(progressValue)
\* (a state setter of an unmounted component does nothing)
updateStage(v, stage, progressValue) ==
    [v EXCEPT !.currentStage = IF v.mounted THEN stage ELSE @,
              !.progress = IF v.mounted THEN progressValue ELSE @,
              !.processingStage = stage]

\* App.handleError
handleError(v) ==
    [v EXCEPT !.error = TRUE, !.appIsProcessing = FALSE, !.processingStage = "error"]

\* startProcessing as the render that had videoFile and extractedFrames built it
startProcessing(v, videoFile, extractedFrames) ==
    IF ~videoFile /\ extractedFrames = 0 THEN handleError(v)
    ELSE LET started == [v EXCEPT !.isProcessing = TRUE, !.cancelled = FALSE,
                                  !.appIsProcessing = TRUE, !.error = FALSE]
         IN  IF extractedFrames > 0 THEN updateStage(started, "analyzing_frames", 30)
             ELSE updateStage(started, "extracting_frames", 10)

handleFramesExtracted(v, frames) ==
    updateStage([v EXCEPT !.extractedFrames = IF v.mounted THEN frames ELSE @],
                "analyzing_frames", 30)

handleAnalysisComplete(v, objects) ==
    updateStage([v EXCEPT !.detectedObjects = IF v.mounted THEN objects ELSE @],
                "calculating_scores", 70)

\* handleScoringComplete, and App.handleProcessingComplete which shows the
\* results screen in place of the VideoProcessor
handleScoringComplete(v) ==
    LET done == updateStage(v, "complete", 100)
    IN  [done EXCEPT !.isProcessing = FALSE, !.mounted = FALSE,
                     !.currentResult = TRUE, !.currentScreen = "results",
                     !.appIsProcessing = FALSE, !.processingStage = "complete"]

\* the handler has run: the event is noted and the tree rendered
Handled(name, v) == video' = render(video, [v EXCEPT !.event = name])

VideoIdle == UNCHANGED <<trackerVars, scorer, app, board>>

handleZoneSelect ==
    /\ video.currentScreen = "zone-selection"
    /\ Handled("handleZoneSelect",
               [video EXCEPT !.currentScreen = "video-processing", !.error = FALSE,
                             !.mounted = TRUE, !.captureMode = "live", !.videoFile = FALSE,
                             !.extractedFrames = 0, !.detectedObjects = 0,
                             !.isProcessing = FALSE, !.currentStage = "idle",
                             !.progress = 0, !.cancelled = FALSE])
    /\ VideoIdle

handleBackToZones ==
    /\ video.currentScreen # "zone-selection"
    /\ Handled("handleBackToZones",
               [video EXCEPT !.currentScreen = "zone-selection", !.currentResult = FALSE,
                             !.error = FALSE, !.processingStage = "idle",
                             !.mounted = FALSE, !.cancelled = FALSE])
    /\ VideoIdle

setCaptureMode(mode) ==
    /\ video.mounted /\ ~video.isProcessing
    /\ Handled("setCaptureMode", [video EXCEPT !.captureMode = mode])
    /\ VideoIdle

handleVideoSelect ==
    /\ video.mounted /\ ~video.isProcessing /\ video.captureMode = "upload"
    /\ Handled("handleVideoSelect",
               updateStage([video EXCEPT !.videoFile = TRUE, !.extractedFrames = 0,
                                         !.detectedObjects = 0], "idle", 0))
    /\ VideoIdle

\* LiveVisionAnalysis.processFrames: onFrameCapture(frames); onStartProcessing()
\* with the startProcessing of the render before the frames were handed over
processFrames(frames) ==
    /\ video.mounted /\ ~video.isProcessing /\ video.captureMode = "live"
    /\ Handled("startProcessing",
               startProcessing([video EXCEPT !.extractedFrames = frames,
                                             !.videoFile = FALSE],
                               video.videoFile, video.extractedFrames))
    /\ VideoIdle

\* the start button of VideoUpload
startUpload ==
    /\ video.mounted /\ ~video.isProcessing /\ video.captureMode = "upload"
    /\ video.videoFile
    /\ Handled("startProcessing",
               startProcessing(video, video.videoFile, video.extractedFrames))
    /\ VideoIdle

cancelProcessing ==
    /\ video.mounted /\ video.isProcessing
    /\ Handled("cancelProcessing",
               updateStage([video EXCEPT !.isProcessing = FALSE, !.cancelled = TRUE],
                           "idle", 0))
    /\ VideoIdle

\* the work of a child ends: it calls its completion handler or onError
TaskEnds(child, name, v) ==
    \E t \in video.tasks :
        /\ t.child = child
        /\ Handled(name, [v EXCEPT !.tasks = @ \ {t}])
        /\ VideoIdle

framesExtracted ==
    \E frames \in 1..MaxFrames :
        TaskEnds("FrameExtractor", "handleFramesExtracted",
                 handleFramesExtracted(video, frames))

extractionFailed == TaskEnds("FrameExtractor", "onError", handleError(video))

analysisComplete ==
    \E objects \in 0..MaxObjects :
        TaskEnds("VisionAnalyzer", "handleAnalysisComplete",
                 handleAnalysisComplete(video, objects))

analysisFailed == TaskEnds("VisionAnalyzer", "onError", handleError(video))

scoringComplete ==
    TaskEnds("ScoringEngine", "handleScoringComplete", handleScoringComplete(video))

scoringFailed == TaskEnds("ScoringEngine", "onError", handleError(video))

\* a later render runs the effect of a mounted child whose work has ended
rerunEffect ==
    /\ mountedChild(video) # "none"
    /\ [child |-> mountedChild(video), current |-> TRUE] \notin video.tasks
    /\ video' = [video EXCEPT !.event = "render",
                              !.tasks = @ \cup {[child |-> mountedChild(video),
                                                 current |-> TRUE]}]
    /\ VideoIdle

VideoInit ==
    /\ TrackerInit
    /\ route.segments = <<>>
    /\ scorer = NoScorerCall
    /\ app = NoApp
    /\ board = NoBoard
    /\ video = VideoStart

VideoNext ==
    \/ handleZoneSelect
    \/ handleBackToZones
    \/ \E mode \in {"live", "upload"} : setCaptureMode(mode)
    \/ handleVideoSelect
    \/ \E frames \in 1..MaxFrames : processFrames(frames)
    \/ startUpload
    \/ cancelProcessing
    \/ framesExtracted
    \/ extractionFailed
    \/ analysisComplete
    \/ analysisFailed
    \/ scoringComplete
    \/ scoringFailed
    \/ rerunEffect

VideoSpec == VideoInit /\ [][VideoNext]_vars

-----------------------------------------------------------------------------
(* The RacingApp around the tracker (src/app.js): startDrive, the            *)
(* geolocation watch, stopDrive and the saving of the results.  A stored     *)
(* value is what JSON.stringify was given: null or a results object.         *)

MaxStops == 2       \* stopDrive calls in one behaviour

\* the app once a route has been calculated: no tracker, no watch, nothing stored
AppStart ==
    [driveTracker |-> FALSE, locationWatchId |-> FALSE, stops |-> 0,
     saving |-> <<>>, last_drive |-> Null, drive_history |-> <<>>,
     personal_best |-> Null, shown |-> <<>>]

\* the locationData the watch builds: speed: position.coords.speed || 0
watchedSample(position) ==
    [position EXCEPT !.speed = IF @ = Null THEN Some(Num(0)) ELSE @]

\* history.unshift(results); history.splice(10)
unshiftResults(history, results) ==
    SubSeq(<<results>> \o history, 1,
           IF Len(history) + 1 > 10 THEN 10 ELSE Len(history) + 1)

\* updatePersonalBest: the best results of the route's distance category;
\* results.distance of null throws, which saveDriveResults catches
updatePersonalBest(best, results) ==
    IF results = Null THEN best
    ELSE IF best = Null \/ RatLess(Val(best).score, Val(results).score) THEN results
    ELSE best

\* what showResults leaves on the screen: results.score of null throws
showResults(results) ==
    IF results = Null THEN "TypeError" ELSE Val(results)

AppIdle == UNCHANGED <<scorer, video, board>>

\* new DriveTracker(this.currentRoute) and start(): the fields of the new
\* tracker are those start() sets, the timer of a tracker replaced while
\* Active stays scheduled
startDrive ==
    /\ start
    /\ app' = [app EXCEPT !.driveTracker = TRUE, !.locationWatchId = TRUE]
    /\ AppIdle

\* the callback of watchPosition, which calls the tracker only when it is Active
watchPosition(position) ==
    /\ app.locationWatchId
    /\ app.driveTracker /\ isActive
    /\ updatePosition(watchedSample(position))
    /\ UNCHANGED app
    /\ AppIdle

\* stopDrive (confirmed) up to its await: the watch is cleared, finish() is
\* called and saveDriveResults writes last_drive
stopDrive ==
    /\ app.driveTracker
    /\ app.stops < MaxStops
    /\ finish
    /\ app' = [app EXCEPT !.locationWatchId = FALSE,
                          !.stops = @ + 1,
                          !.last_drive = Some(lastCall'.result),
                          !.saving = Append(@, lastCall'.result)]
    /\ AppIdle

\* the rest of saveDriveResults and of stopDrive for the oldest call awaiting:
\* the history, the personal best, showResults and this.driveTracker = null,
\* which the TypeError of showResults(null) skips
saveDriveResults ==
    /\ app.saving # <<>>
    /\ LET results == Head(app.saving)
       IN  app' = [app EXCEPT !.saving = Tail(@),
                              !.drive_history = unshiftResults(@, results),
                              !.personal_best = updatePersonalBest(@, results),
                              !.shown = Append(@, showResults(results)),
                              !.driveTracker = IF results = Null THEN @ ELSE FALSE]
    /\ UNCHANGED <<trackerVars, scorer, video, board>>

\* the app with a route of at most one segment calculated
AppInit ==
    /\ TrackerInit
    /\ Len(route.segments) <= 1
    /\ scorer = NoScorerCall
    /\ video = NoVideo
    /\ board = NoBoard
    /\ app = AppStart

AppNext ==
    \/ startDrive
    \/ \E position \in Samples : watchPosition(position)
    \/ stopDrive
    \/ saveDriveResults

AppSpec == AppInit /\ [][AppNext]_vars

-----------------------------------------------------------------------------
(* The LeaderboardManager (src/leaderboard.js).  An entry keeps its rank,    *)
(* userId, score and accuracy; a user id is a string, a missing one null.    *)
(* The clock counts minutes here.  A submitScore or getLeaderboard call runs *)
(* to its end before the next one starts.                                    *)

MaxSubmits == 3     \* submitScore calls in one behaviour
MaxBoardTime == 3   \* the clock runs from 0 to MaxBoardTime minutes

cacheExpiry == 2    \* this.cacheExpiry = 2 * 60 * 1000 ms
TopEntries == 100   \* .slice(0, 100)

Categories == {"10km", "50km"}

\* the users that submit: one with an id, one without
Users == {[id |-> Some("u1")], [id |-> Null]}

\* the drive results submitted: a score below, among and above the demo
\* scores, on a route of 2 km and on one of 20 km
BoardResults == [score : {1000, 2500, 3000}, accuracy : {90}, distance : {2000, 20000}]

Entry(rank, userId, score, accuracy) ==
    [rank |-> rank, userId |-> userId, score |-> score, accuracy |-> accuracy]

getDemoLeaderboard ==
    << Entry(1, "demo1", 2850, 95), Entry(2, "demo2", 2720, 92),
       Entry(3, "demo3", 2650, 89), Entry(4, "demo4", 2400, 87),
       Entry(5, "demo5", 2200, 85) >>

\* a new manager on a storage without leaderboards
BoardStart ==
    [storage |-> [c \in Categories |-> <<>>],
     cache |-> [c \in Categories |-> Null],
     submits |-> 0,
     last |-> [op |-> "new"]]

getDistanceCategory(distance) ==
    IF distance < 10 * 1000 THEN "10km"
    ELSE IF distance < 50 * 1000 THEN "50km"
    ELSE IF distance < 100 * 1000 THEN "100km"
    ELSE "1000km"

formatLeaderboardEntry(results, user) ==
    Entry(0, IF user.id = Null THEN "anonymous" ELSE Val(user.id),
          results.score, results.accuracy)

\* the comparison of the sort: score descending, then accuracy descending
Before(a, b) ==
    IF b.score # a.score THEN b.score - a.score < 0 ELSE b.accuracy - a.accuracy < 0

\* Array.prototype.sort with that comparison (stable)
RECURSIVE sortEntries(_)
sortEntries(entries) ==
    IF entries = <<>> THEN <<>>
    ELSE LET rest == sortEntries(Tail(entries))
             e == Head(entries)
             \* e goes before the first entry of rest that is not before it
             ahead == {i \in DOMAIN rest : \A j \in 1..i : Before(rest[j], e)}
             k == Cardinality(ahead)
         IN  SubSeq(rest, 1, k) \o <<e>> \o SubSeq(rest, k + 1, Len(rest))

processLeaderboard(entries) ==
    LET sorted == sortEntries(entries)
        top == SubSeq(sorted, 1, IF Len(sorted) > TopEntries THEN TopEntries ELSE Len(sorted))
    IN  [i \in DOMAIN top |-> [top[i] EXCEPT !.rank = i]]

\* getLeaderboard(category) at time t: the list it returns and the manager after it
getLeaderboard(b, category, t) ==
    LET cached == b.cache[category]
    IN  IF cached # Null /\ t - Val(cached).timestamp < cacheExpiry
        THEN [data |-> Val(cached).data, board |-> b]
        ELSE LET stored == b.storage[category]
                 leaderboardData == IF stored = <<>> THEN getDemoLeaderboard ELSE stored
             IN  [data |-> leaderboardData,
                  board |-> [b EXCEPT !.storage[category] = leaderboardData,
                                      !.cache[category] =
                                          Some([data |-> leaderboardData, timestamp |-> t])]]

\* currentLeaderboard.findIndex(e => e.userId === user.id), 0 for none
findIndex(entries, user) ==
    LET found == {i \in DOMAIN entries : Some(entries[i].userId) = user.id}
    IN  IF found = {} THEN 0 ELSE CHOOSE i \in found : \A j \in found : i <= j

\* submitScore(results, user) at time t: what it returns and the manager after it
submitScore(b, results, user, t) ==
    LET category == getDistanceCategory(results.distance)
        entry == formatLeaderboardEntry(results, user)
        got == getLeaderboard(b, category, t)
        currentLeaderboard == got.data
        existingEntryIndex == findIndex(currentLeaderboard, user)
        isPersonalBest ==
            IF existingEntryIndex > 0
            THEN entry.score > currentLeaderboard[existingEntryIndex].score
            ELSE TRUE
        changed == IF existingEntryIndex > 0
                   THEN [currentLeaderboard EXCEPT ![existingEntryIndex] = entry]
                   ELSE Append(currentLeaderboard, entry)
        updatedLeaderboard == processLeaderboard(changed)
        userIndex == findIndex(updatedLeaderboard, user)
        userRank == IF userIndex > 0 THEN updatedLeaderboard[userIndex].rank ELSE 0
    IN  IF isPersonalBest
        THEN [returned |-> [success |-> TRUE, rank |-> userRank, isPersonalBest |-> TRUE],
              board |-> [got.board EXCEPT
                           !.storage[category] = updatedLeaderboard,
                           !.cache[category] =
                               Some([data |-> updatedLeaderboard, timestamp |-> t])]]
        ELSE [returned |-> [success |-> TRUE, rank |-> 0, isPersonalBest |-> FALSE],
              board |-> got.board]

untimed == <<route, isActive, startTime, currentSegment, segmentAccuracies,
             lastPosition, totalDistance, driveTimer, intervals, nextTimerId,
             lastCall, scoreCalls, segmentWrites>>

\* Date.now() read by the call: the clock has moved on by 0 or 1 minute
BoardClock == \E dt \in 0..1 : now + dt <= MaxBoardTime /\ now' = now + dt

callSubmitScore(results, user) ==
    /\ board.submits < MaxSubmits
    /\ BoardClock
    /\ LET call == submitScore(board, results, user, now')
       IN  board' = [call.board EXCEPT
                       !.submits = @ + 1,
                       !.last = [op |-> "submitScore",
                                 category |-> getDistanceCategory(results.distance),
                                 entry |-> formatLeaderboardEntry(results, user),
                                 returned |-> call.returned]]
    /\ UNCHANGED <<untimed, scorer, app, video>>

callGetLeaderboard(category) ==
    /\ BoardClock
    /\ LET call == getLeaderboard(board, category, now')
       IN  board' = [call.board EXCEPT
                       !.last = [op |-> "getLeaderboard", category |-> category,
                                 returned |-> call.data]]
    /\ UNCHANGED <<untimed, scorer, app, video>>

BoardInit ==
    /\ TrackerInit
    /\ route.segments = <<>>
    /\ scorer = NoScorerCall
    /\ app = NoApp
    /\ video = NoVideo
    /\ board = BoardStart

BoardNext ==
    \/ \E results \in BoardResults, user \in Users : callSubmitScore(results, user)
    \/ \E category \in Categories : callGetLeaderboard(category)

BoardSpec == BoardInit /\ [][BoardNext]_vars

-----------------------------------------------------------------------------
(* Properties *)

SegmentCount == Len(route.segments)

\* the tracker has been started and has left Active again
Finished == ~isActive /\ startTime # Null

\* the nominal distance of the first k segments of the route
RECURSIVE NominalDistance(_)
NominalDistance(k) ==
    IF k = 0 THEN 0 ELSE route.segments[k].distance + NominalDistance(k - 1)

\* C1: when an updatePosition call completes the last segment of the route, the
\* tracker is no longer Active when that call returns.
C1_AutoFinishInSameCall ==
    (lastCall.op = "updatePosition" /\ lastCall.advanced /\ currentSegment = SegmentCount)
        => ~isActive

\* C2: while the tracker is Active the current segment index is below the
\* number of segments of the route.
C2_IndexBelowCountWhileActive ==
    isActive => currentSegment < SegmentCount

\* C3 as claimed: once finish() has moved the tracker out of Active, no later
\* call (start included) makes it Active again.
C3_NeverActiveAgain ==
    [][Finished => ~isActive']_vars

\* C3 as amended: finish() always leaves the tracker not Active, and a tracker
\* that is not Active becomes Active only by a start() call; updatePosition
\* and finish never activate it.
C3_OnlyStartActivates ==
    [][/\ lastCall'.op = "finish" => ~isActive'
       /\ (~isActive /\ isActive') => lastCall'.op = "start"]_vars

\* a second start(), made after the first session was finished
C3_Witness ==
    /\ lastCall.op = "start"
    /\ ~lastCall.wasActive
    /\ nextTimerId = 3
    /\ isActive

\* C4: start() on a route with zero segments leaves the tracker Idle: not
\* Active, no start timestamp, no timer.
C4_EmptyRouteStaysIdle ==
    SegmentCount = 0 => (~isActive /\ startTime = Null /\ driveTimer = Null)

\* C5: updatePosition on a tracker that is not Active changes nothing: segment
\* index, cumulative distance, completed accuracies, last position and the
\* route's segments are as before, and the tracker stays not Active.
C5_InactiveUpdateIsNoop ==
    [][(lastCall'.op = "updatePosition" /\ ~isActive)
           => (UNCHANGED trackerState /\ UNCHANGED route /\ ~isActive')]_vars

\* a late sample delivered after finish(), with a segment already completed
C5_Witness ==
    /\ lastCall.op = "updatePosition"
    /\ ~lastCall.wasActive
    /\ Finished
    /\ Len(segmentAccuracies) > 0

\* C6: finish() returns results exactly when it is called on an Active
\* tracker, and the final score is computed once per finished session: never
\* before the session is finished, and not again by later finish() calls.
C6_FinishOnce ==
    /\ lastCall.op = "finish" => (lastCall.result # Null <=> lastCall.wasActive)
    /\ scoreCalls = IF Finished THEN 1 ELSE 0

\* a finish() call on a tracker that was already finished
C6_Witness ==
    /\ lastCall.op = "finish"
    /\ ~lastCall.wasActive
    /\ Finished
    /\ lastCall.result = Null

\* C7: within a session each segment is scored at most once: the segments
\* with an entry in the completed-accuracy list were written once, the others
\* never, and a segment's completed flag and accuracy change only in the
\* updatePosition call that completes it, which appends one entry.
C7_ScoredOnce ==
    /\ [](\A i \in DOMAIN segmentWrites :
            segmentWrites[i] = IF i <= Len(segmentAccuracies) THEN 1 ELSE 0)
    /\ [][\A i \in DOMAIN route.segments :
            (\/ route'.segments[i].completed # route.segments[i].completed
             \/ route'.segments[i].accuracy # route.segments[i].accuracy)
            => /\ lastCall'.op = "updatePosition"
               /\ lastCall'.advanced
               /\ currentSegment = i - 1
               /\ currentSegment' = i
               /\ Len(segmentAccuracies') = Len(segmentAccuracies) + 1]_vars

\* a later sample of the session arrives after the first segment was completed
C7_Witness ==
    /\ lastCall.op = "updatePosition"
    /\ lastCall.wasActive
    /\ ~lastCall.advanced
    /\ isActive
    /\ currentSegment = 1
    /\ segmentWrites[1] = 1

\* C8: an updatePosition call on an Active tracker with a current segment i
\* completes that segment if and only if, with the sample's distance added,
\* the cumulative distance minus the nominal distance of segments 0..i-1 is
\* at least 0.9 times the nominal distance of segment i; otherwise the index
\* and the completed-accuracy list are unchanged.
C8_CompletionThreshold ==
    [][(lastCall'.op = "updatePosition" /\ isActive /\ currentSegment < SegmentCount)
        => IF 10 * (totalDistance' - NominalDistance(currentSegment))
                 >= 9 * route.segments[currentSegment + 1].distance
           THEN /\ currentSegment' = currentSegment + 1
                /\ Len(segmentAccuracies') = Len(segmentAccuracies) + 1
                /\ route'.segments[currentSegment + 1].completed
           ELSE UNCHANGED <<currentSegment, segmentAccuracies>>]_vars

\* the first segment completed at exactly 90% of its nominal distance
C8_Witness ==
    /\ lastCall.op = "updatePosition"
    /\ lastCall.advanced
    /\ currentSegment = 1
    /\ 10 * totalDistance = 9 * route.segments[1].distance

\* C9: every entry of the completed-accuracy list is the rounded accuracy
\* recorded on its segment.
C9_ListHoldsRoundedAccuracy ==
    \A i \in 1..Len(segmentAccuracies) :
        i <= SegmentCount => segmentAccuracies[i] = Num(route.segments[i].accuracy)

\* C10: the route is as it was handed to the tracker: distance, speed limit,
\* completed flag and accuracy of every segment, and the total distance.
C10_RouteReadOnly ==
    \E r \in Routes :
        /\ r.totalDistance = route.totalDistance
        /\ Len(r.segments) = SegmentCount
        /\ \A i \in DOMAIN r.segments :
              /\ r.segments[i].distance = route.segments[i].distance
              /\ r.segments[i].speedLimit = route.segments[i].speedLimit
              /\ r.segments[i].completed = route.segments[i].completed
              /\ r.segments[i].accuracy = route.segments[i].accuracy

-----------------------------------------------------------------------------
(* Properties of sessions, distance and scores *)

\* finish() has just returned results
FinishReturned == lastCall.op = "finish" /\ lastCall.result # Null

\* the segments completed since the last start()
RECURSIVE WritesUpTo(_)
WritesUpTo(k) == IF k = 0 THEN 0 ELSE segmentWrites[k] + WritesUpTo(k - 1)

\* the distance between the last-seen position and the sample of the call
SampleDelta ==
    IF lastPosition = Null THEN 0
    ELSE Abs(Val(lastCall'.sample).lat - Val(lastPosition).lat)

\* C11: a start() call on an Active tracker leaves index 0, distance 0, an
\* empty completed-accuracy list and no last-seen position, and the results
\* of a session hold only what was recorded since its own start(): as many
\* accuracies as segments completed since then, and the time since then.
C11_StartDiscardsSession ==
    /\ [][(lastCall'.op = "start" /\ isActive)
            => /\ isActive'
               /\ currentSegment' = 0
               /\ totalDistance' = 0
               /\ segmentAccuracies' = <<>>
               /\ lastPosition' = Null]_vars
    /\ [](FinishReturned
            => LET results == Val(lastCall.result)
               IN  /\ results.segmentsCompleted = WritesUpTo(SegmentCount)
                   /\ Len(results.segmentAccuracies) = WritesUpTo(SegmentCount)
                   /\ results.duration = results.date - Val(startTime))

\* start() called on an Active tracker that had already completed a segment
C11_Witness ==
    /\ lastCall.op = "start"
    /\ lastCall.wasActive
    /\ SegmentCount >= 1
    /\ route.segments[1].completed
    /\ segmentAccuracies = <<>>

\* C12: the cumulative distance never decreases in a call other than start(),
\* whatever the samples; start() sets it to 0.
C12_DistanceMonotone ==
    [][/\ lastCall'.op = "start" => totalDistance' = 0
       /\ lastCall'.op # "start" => totalDistance' >= totalDistance]_vars

\* a sample south of the one before it has added its distance
C12_Witness ==
    /\ lastCall.op = "updatePosition"
    /\ isActive
    /\ lastPosition # Null
    /\ Val(lastPosition).lat = 0
    /\ totalDistance > 0

\* C13: every sample given to an Active tracker becomes the last-seen
\* position, the first one after start() adding zero to the cumulative
\* distance and every later one its distance from the sample before it.
C13_BaselineThenDeltas ==
    [][(lastCall'.op = "updatePosition" /\ isActive)
        => /\ lastPosition' = lastCall'.sample
           /\ totalDistance' = totalDistance + SampleDelta]_vars

\* C14: a sample without speed given to an Active tracker with a current
\* segment is scored as accuracy(0, target), which is 8 for every target > 0
\* (80 - 80 * (t - 0.1 t) / t); its position becomes the last-seen position
\* and adds its distance, and it completes the segment exactly when the 90%
\* threshold is reached, appending that accuracy.
C14_MissingSpeedIsZero ==
    [][(/\ lastCall'.op = "updatePosition"
        /\ isActive
        /\ currentSegment < SegmentCount
        /\ Val(lastCall'.sample).speed = Null)
        => /\ route'.segments[currentSegment + 1].currentAccuracy = Some(Num(8))
           /\ lastPosition' = lastCall'.sample
           /\ totalDistance' = totalDistance + SampleDelta
           /\ lastCall'.advanced
                <=> (10 * (totalDistance' - NominalDistance(currentSegment))
                        >= 9 * route.segments[currentSegment + 1].distance)
           /\ lastCall'.advanced
                => segmentAccuracies' = Append(segmentAccuracies, Num(8))]_vars

\* a sample without speed has completed a segment
C14_Witness ==
    /\ lastCall.op = "updatePosition"
    /\ lastCall.advanced
    /\ Val(lastCall.sample).speed = Null
    /\ totalDistance > 0

\* C15: on the route of two 1000 m segments with target 60 km/h, both
\* completed at 60 km/h, the results have average accuracy 100 and score 1774.
C15_SteadyDriveScores1774 ==
    (/\ FinishReturned
     /\ route.totalDistance = 2000
     /\ Val(lastCall.result).segmentAccuracies = <<Num(100), Num(100)>>)
        => /\ Val(lastCall.result).accuracy = Num(100)
           /\ Val(lastCall.result).score = Num(1774)

\* C16: the final score is at most 9999, whatever the average accuracy in
\* [0,100] and the distance.
C16_ScoreCapped ==
    (scorer.fn = "calculateFinalScore" /\ scorer.value # <<>>)
        => RatLeq(scorer.value[1], Num(9999))

\* C17: results whose accuracies are all 0, those of a session finished
\* before any segment was completed among them, have average accuracy 0 and
\* score 0.
C17_ZeroAverageScoresZero ==
    FinishReturned
        => LET results == Val(lastCall.result)
           IN  (\A i \in 1..Len(results.segmentAccuracies) :
                    results.segmentAccuracies[i] = Num(0))
                 => /\ results.accuracy = Num(0)
                    /\ results.score = Num(0)

\* a session that saw samples is finished before any segment was completed
C17_Witness ==
    /\ FinishReturned
    /\ Val(lastCall.result).segmentsCompleted = 0
    /\ lastPosition # Null
    /\ SegmentCount >= 1

\* C18: with target speed 0 the segment scorer returns 0 for every actual speed.
C18_ZeroTargetScoresZero ==
    (/\ scorer.fn = "calculateSpeedAccuracy"
     /\ scorer.value # <<>>
     /\ scorer.args[3] = 0)
        => scorer.value[1] = Num(0)

\* C19: at a target speed t > 0 the accuracy of driving exactly t is 100, by
\* calculateSpeedAccuracy and by calculateSegmentAccuracy.
C19_ExactSpeedScores100 ==
    (/\ scorer.fn = "calculateSpeedAccuracy"
     /\ scorer.value # <<>>
     /\ scorer.args[3] > 0
     /\ scorer.args[1] = scorer.args[3])
        => /\ scorer.value[1] = Num(100)
           /\ scorer.value[3] = Num(100)

\* the scorers were called with actual speed = target = 10 km/h
C19_Witness ==
    /\ scorer.fn = "calculateSpeedAccuracy"
    /\ scorer.value # <<>>
    /\ scorer.args[1] = 10
    /\ scorer.args[3] = 10

-----------------------------------------------------------------------------
(* Properties of the classifier, the sessions' results and the timer *)

Processing == video.mounted /\ video.isProcessing

\* C22: a processing run that has started never stays in a processing stage
\* with nothing left to advance it: while the VideoProcessor is processing,
\* a stage-gated child is mounted or work of a child is still in flight.
C22_PipelineNeverStalls ==
    Processing => (mountedChild(video) # "none" \/ video.tasks # {})

\* C23: after cancelProcessing the VideoProcessor is idle and not processing,
\* and until the user acts again no handler changes the stage or reports
\* completion.
C23_CancelIsFinal ==
    [][(video.mounted /\ video.cancelled)
        => /\ video.currentStage = "idle" /\ ~video.isProcessing
           /\ video'.event \in {"handleFramesExtracted", "handleAnalysisComplete",
                                "handleScoringComplete", "onError", "render"}
                => /\ video'.currentStage = "idle"
                   /\ ~video'.isProcessing
                   /\ video'.currentResult = video.currentResult]_vars

\* C24: what stopDrive hands to saveDriveResults and showResults is a
\* DriveResult, never null: nothing null awaits saving or is stored under
\* last_drive or in drive_history, and showResults has not failed on null.
C24_ResultNeverNull ==
    /\ \A i \in DOMAIN app.saving : app.saving[i] # Null
    /\ app.last_drive # Some(Null)
    /\ \A i \in DOMAIN app.drive_history : app.drive_history[i] # Null
    /\ \A i \in DOMAIN app.shown : app.shown[i] # "TypeError"

\* C25: an updatePosition call advances the segment index by at most one;
\* when the cumulative distance had already passed the current segment's
\* threshold before the call (the segment was skipped over by an earlier
\* sample), the call completes that one segment and appends the accuracy of
\* its own sample's speed.
C25_OneSegmentPerSample ==
    [][lastCall'.op = "updatePosition"
        => /\ currentSegment' \in {currentSegment, currentSegment + 1}
           /\ (/\ isActive
               /\ currentSegment < SegmentCount
               /\ 10 * (totalDistance - NominalDistance(currentSegment))
                    >= 9 * route.segments[currentSegment + 1].distance)
                => /\ lastCall'.advanced
                   /\ currentSegment' = currentSegment + 1
                   /\ segmentAccuracies' =
                        Append(segmentAccuracies,
                               calculateSpeedAccuracy(
                                   speedKmh(Val(lastCall'.sample)),
                                   Num(route.segments[currentSegment + 1].speedLimit)))]_vars

\* two 1000 m segments and two deltas of 2700 m: the first delta passed both
\* thresholds and completed the first segment, the second call the second
C25_Witness ==
    /\ lastCall.op = "updatePosition"
    /\ lastCall.advanced
    /\ currentSegment = 2
    /\ route.segments[2].distance = 1000
    /\ totalDistance = 5400

\* C26: once start() has been called, the completed-accuracy list has as
\* many entries as the segment index says, at most the number of segments of
\* the route, and results have segmentsCompleted <= totalSegments.
C26_ListLengthIsIndex ==
    startTime # Null
        => /\ Len(segmentAccuracies) = currentSegment
           /\ currentSegment <= SegmentCount
           /\ FinishReturned
                => Val(lastCall.result).segmentsCompleted
                     <= Val(lastCall.result).totalSegments

\* results of a session that completed every segment of a two-segment route
C26_Witness ==
    /\ FinishReturned
    /\ Val(lastCall.result).totalSegments = 2
    /\ Val(lastCall.result).segmentsCompleted = 2
    /\ currentSegment = 2

\* C27: at most one interval is scheduled for the tracker at any time, and
\* once the tracker has been finished none is.
C27_OneTimerNoneAfterFinish ==
    /\ Cardinality(intervals) <= 1
    /\ Finished => intervals = {}

\* the distance multiplier of the route's nominal length: log10(km + 1) + 1
NominalMultiplier ==
    CASE route.totalDistance = 0 -> Num(1)
      [] route.totalDistance = 1000 -> Rat(1301, 1000)
      [] route.totalDistance = 2000 -> Rat(1477, 1000)
      [] route.totalDistance = 3000 -> Rat(1602, 1000)

\* C28: score and distance of the results are fixed by the completed
\* accuracies and the route's nominal length alone: the distance is the
\* nominal one, the score the rounded product of ten times the mean
\* accuracy with the nominal multiplier, whatever distance was travelled and
\* however many segments were left.
C28_ScoreFromNominalDistance ==
    FinishReturned
        => LET results == Val(lastCall.result)
               list == results.segmentAccuracies
               mean == IF list = <<>> THEN Num(0)
                       ELSE RatDiv(RatSum(list), Num(Len(list)))
           IN  /\ results.distance = route.totalDistance
               /\ results.score =
                    Num(MathRound(RatMul(RatMul(mean, Num(10)), NominalMultiplier)))

\* a session stopped after one of two segments, 2700 m travelled on a
\* route of 2000 m
C28_Witness ==
    /\ FinishReturned
    /\ Val(lastCall.result).segmentsCompleted = 1
    /\ Val(lastCall.result).totalSegments = 2
    /\ route.totalDistance = 2000
    /\ totalDistance = 2700

-----------------------------------------------------------------------------
(* Properties of the leaderboard *)

\* the scores the entries with this userId have in a list
ScoresOf(entries, userId) ==
    {entries[i].score : i \in {j \in DOMAIN entries : entries[j].userId = userId}}

\* the list getLeaderboard returns for the category at time t
Listed(b, category, t) == getLeaderboard(b, category, t).data

\* C29: a submitScore call of a user who has an entry in the category
\* replaces it exactly when the new score is strictly greater and then
\* leaves the new entry in the list getLeaderboard returns next; otherwise
\* it leaves the stored and the cached list as they were and reports
\* isPersonalBest false; and no score of the user in the category decreases.
C29_OnlyImprovementsReplace ==
    [][board'.last.op = "submitScore"
        => LET category == board'.last.category
               entry == board'.last.entry
               old == ScoresOf(board.storage[category], entry.userId)
               new == ScoresOf(board'.storage[category], entry.userId)
               improving == \A score \in old : entry.score > score
           IN  old # {}
                 => /\ \A score \in old : \E kept \in new : kept >= score
                    /\ board'.last.returned.isPersonalBest <=> improving
                    /\ improving
                         => entry.score \in ScoresOf(Listed(board', category, now'), entry.userId)
                    /\ ~improving
                         => /\ board'.storage[category] = board.storage[category]
                            /\ Val(board'.cache[category]).data = board.storage[category]]_vars

\* C30: every stored and every cached category leaderboard has at most one
\* entry per userId, "anonymous" included.
C30_OneEntryPerUser ==
    \A category \in Categories :
        LET lists == {board.storage[category]}
                       \cup (IF board.cache[category] = Null THEN {}
                             ELSE {Val(board.cache[category]).data})
        IN  \A entries \in lists :
              \A i, j \in DOMAIN entries :
                  entries[i].userId = entries[j].userId => i = j

====
